---- MODULE Spec2Model ----
(***************************************************************************)
(* State-machine model of WSClient (webapp/src/wsclient.ts): the dual       *)
(* transport (raw WebSocket / Mattermost relay client), the lifecycle       *)
(* state, the handler registries, the update coalescer and its timers.      *)
(***************************************************************************)
EXTENDS Integers, Sequences, FiniteSets, TLC

\* ---------------------------------------------------------------- bounds
MaxSockets == 2        \* WebSocket objects that are alive at the same time
MaxHandlers == 2       \* handlers held by one registry
MaxBurst == 3          \* enqueues between two flushes
MaxTimers == 2         \* debounce timers pending in the event loop
MaxPolls == 2          \* interval timers alive at the same time
MaxReopen == 1         \* reopen timers pending in the event loop
MaxPluginTimers == 1   \* plugin-reconnect timers pending in the event loop

\* ------------------------------------------------------------ input sets
Handlers == {"h1", "h2"}
OneHandler == {"h1"}
EntityIds == {"b1", "b2"}
Titles == {"v1", "v2"}
Versions == {<<1>>, <<1, 0>>, <<1, 1>>}
Tokens == {"", "tok"}
NoSocket == 0
NoTimer == 0
NoClient == "null"
Relay == "relay"
ThisPlugin == "focalboard"
BroadcastIds == {"focalboard", "other"}

VARIABLES
    ws,                 \* this.ws: NoSocket or the id of a WebSocket object
    client,             \* this.client: NoClient or Relay
    onPluginReconnect,  \* this.onPluginReconnect: FALSE (null) or TRUE (the onReconnect closure)
    pluginId, pluginVersion, clientPrefix,
    onAppVersionChangeHandler,   \* FALSE (null) or TRUE (a hook is set)
    state,              \* this.state
    onStateChange, onReconnect, onChange, onError, onConfigChange,
    updatedData,        \* this.updatedData: [Blocks, Categories]
    updateTimeout,      \* this.updateTimeout: NoTimer or a timer id
    errorPollId,        \* this.errorPollId: NoTimer or an interval id
    \* ---- the environment: browser sockets, event-loop timers, the relay
    sockets,            \* readyState of each WebSocket object
    debounceTimers,     \* ids of the pending setTimeout(flush) timers
    pollers,            \* ids of the live setInterval(poll) timers
    reopenTimers,       \* number of pending setTimeout(reopen) timers
    pluginTimers,       \* number of pending setTimeout(plugin reconnect) timers
    relayConn,          \* state of the relay's connection (conn.readyState)
    relayFailed,        \* the relay's connectFailCount > 0
    relayCallbacks,     \* the relay holds the four callbacks of open()
    \* ---- what the last step did, as seen from outside
    lastOp,             \* name and argument of the last operation
    calls,              \* handler invocations made by the last operation, in order
    sent,               \* frames written to a transport by the last operation
    threw,              \* the last operation raised an exception
    \* ---- history
    enqLog,             \* enqueues since the last flush
    episodeReconnects,  \* onReconnect runs (relay callback or poll) since the last relay close
    initWithSocket      \* initPlugin has been called while a raw socket was held

progVars == <<ws, client, onPluginReconnect, pluginId, pluginVersion, clientPrefix,
              onAppVersionChangeHandler, state, onStateChange, onReconnect, onChange,
              onError, onConfigChange, updatedData, updateTimeout, errorPollId>>
envVars == <<sockets, debounceTimers, pollers, reopenTimers, pluginTimers,
             relayConn, relayFailed, relayCallbacks>>
obsVars == <<lastOp, calls, sent, threw>>
histVars == <<enqLog, episodeReconnects, initWithSocket>>
vars == <<progVars, envVars, obsVars, histVars>>

pluginVars == <<pluginId, pluginVersion, clientPrefix>>
registryVars == <<onStateChange, onReconnect, onChange, onError, onConfigChange>>
relayVars == <<relayConn, relayFailed, relayCallbacks>>

\* --------------------------------------------------------------- helpers
Min(S) == CHOOSE x \in S : \A y \in S : x <= y

Op(name, arg) == [name |-> name, arg |-> arg]

\* for (const handler of registry) { handler(this, arg) }
Dispatch(reg, handlers, arg, st) ==
    [i \in 1..Len(handlers) |-> [reg |-> reg, h |-> handlers[i], arg |-> arg, st |-> st]]

CallsOf(cs, reg) == SelectSeq(cs, LAMBDA c : c.reg = reg)

\* Array.prototype.indexOf / splice(index, 1)
IndexOf(seq, h) ==
    IF \E i \in 1..Len(seq) : seq[i] = h
    THEN Min({i \in 1..Len(seq) : seq[i] = h})
    ELSE 0

RemoveAt(seq, i) == [j \in 1..(Len(seq) - 1) |-> IF j < i THEN seq[j] ELSE seq[j + 1]]

RemoveFirst(seq, h) == IF IndexOf(seq, h) # 0 THEN RemoveAt(seq, IndexOf(seq, h)) ELSE seq

Init ==
    /\ ws = NoSocket
    /\ client = NoClient
    /\ onPluginReconnect = FALSE
    /\ pluginId = ""
    /\ pluginVersion = <<>>
    /\ clientPrefix = ""
    /\ onAppVersionChangeHandler = FALSE
    /\ state = "init"
    /\ onStateChange = <<>>
    /\ onReconnect = <<>>
    /\ onChange = [Block |-> <<>>, Category |-> <<>>]
    /\ onError = <<>>
    /\ onConfigChange = <<>>
    /\ updatedData = [Blocks |-> <<>>, Categories |-> <<>>]
    /\ updateTimeout = NoTimer
    /\ errorPollId = NoTimer
    /\ sockets = [s \in 1..MaxSockets |-> "unused"]
    /\ debounceTimers = {}
    /\ pollers = {}
    /\ reopenTimers = 0
    /\ pluginTimers = 0
    /\ relayConn = "down"
    /\ relayFailed = FALSE
    /\ relayCallbacks = FALSE
    /\ lastOp = Op("constructor", "")
    /\ calls = <<>>
    /\ sent = <<>>
    /\ threw = FALSE
    /\ enqLog = <<>>
    /\ episodeReconnects = 0
    /\ initWithSocket = FALSE

\* ------------------------------------------------------------ initPlugin
initPlugin(pid, pver) ==
    /\ pluginId' = pid
    /\ pluginVersion' = pver
    /\ clientPrefix' = <<"custom_", pid, "_">>
    /\ client' = Relay
    /\ initWithSocket' = (initWithSocket \/ ws # NoSocket)
    /\ lastOp' = Op("initPlugin", pver)
    /\ calls' = <<>> /\ sent' = <<>> /\ threw' = FALSE
    /\ UNCHANGED <<ws, onPluginReconnect, onAppVersionChangeHandler, state, registryVars,
                   updatedData, updateTimeout, errorPollId, envVars, enqLog, episodeReconnects>>

\* ------------------------------------------------------------------ open
\* new WebSocket(url): a fresh object; the slot of an object that is closed
\* (it can fire no further event) is reused
FreeSockets == {s \in 1..MaxSockets : sockets[s] \in {"unused", "closed"}}

OpenBody_noReturn ==
    /\ FreeSockets # {}
    /\ ws' = Min(FreeSockets)
    /\ sockets' = [sockets EXCEPT ![Min(FreeSockets)] = "connecting"]
    /\ IF client # NoClient
       THEN onPluginReconnect' = TRUE /\ relayCallbacks' = TRUE
       ELSE UNCHANGED <<onPluginReconnect, relayCallbacks>>

\* the body of open(): in plugin mode it hands the four closures to the relay
\* and returns, otherwise it constructs a socket and makes it the active one
OpenBody ==
    IF client # NoClient
    THEN /\ onPluginReconnect' = TRUE
         /\ relayCallbacks' = TRUE
         /\ UNCHANGED <<ws, sockets>>
    ELSE /\ FreeSockets # {}
         /\ ws' = Min(FreeSockets)
         /\ sockets' = [sockets EXCEPT ![Min(FreeSockets)] = "connecting"]
         /\ UNCHANGED <<onPluginReconnect, relayCallbacks>>

open ==
    /\ OpenBody
    /\ lastOp' = Op("open", "")
    /\ calls' = <<>> /\ sent' = <<>> /\ threw' = FALSE
    /\ UNCHANGED <<client, pluginVars, onAppVersionChangeHandler, state, registryVars,
                   updatedData, updateTimeout, errorPollId, debounceTimers, pollers,
                   reopenTimers, pluginTimers, relayConn, relayFailed, histVars>>

\* the closures of open() in plugin mode
onConnectCalls_silent == <<>>

onConnectCalls == Dispatch("onStateChange", onStateChange, "open", state)

onReconnectCalls == onConnectCalls \o Dispatch("onReconnect", onReconnect, "", "open")

onCloseCalls_stateFirst == Dispatch("onStateChange", onStateChange, "close", "close")

\* for (const handler of this.onStateChange) { handler(this, 'close') }, run
\* before this.state = 'close'
onCloseCalls == Dispatch("onStateChange", onStateChange, "close", state)

onErrorCalls == Dispatch("onError", onError, "event", state)

\* ------------------------------------------------- raw socket callbacks
ws_onopen(s) ==
    /\ sockets[s] = "connecting"
    /\ sockets' = [sockets EXCEPT ![s] = "open"]
    /\ calls' = Dispatch("onStateChange", onStateChange, "open", state)
    /\ state' = "open"
    /\ lastOp' = Op("ws.onopen", s)
    /\ sent' = <<>> /\ threw' = FALSE
    /\ UNCHANGED <<ws, client, onPluginReconnect, pluginVars, onAppVersionChangeHandler,
                   registryVars, updatedData, updateTimeout, errorPollId, debounceTimers,
                   pollers, reopenTimers, pluginTimers, relayVars, histVars>>

ws_onerror(s) ==
    /\ sockets[s] \in {"connecting", "open"}
    /\ calls' = Dispatch("onError", onError, "event", state)
    /\ lastOp' = Op("ws.onerror", s)
    /\ sent' = <<>> /\ threw' = FALSE
    /\ UNCHANGED <<progVars, envVars, histVars>>

IsActiveSocket_any(s) == TRUE

\* whether ws.onclose and ws.onmessage act: the socket is still the active one
IsActiveSocket(s) == s = ws

ws_onclose(s) ==
    /\ sockets[s] \in {"connecting", "open", "closing"}
    /\ sockets' = [sockets EXCEPT ![s] = "closed"]
    /\ IF IsActiveSocket(s)
       THEN /\ reopenTimers < MaxReopen
            /\ calls' = Dispatch("onStateChange", onStateChange, "close", state)
            /\ state' = "close"
            /\ reopenTimers' = reopenTimers + 1
       ELSE /\ calls' = <<>>
            /\ UNCHANGED <<state, reopenTimers>>
    /\ lastOp' = Op("ws.onclose", s)
    /\ sent' = <<>> /\ threw' = FALSE
    /\ UNCHANGED <<ws, client, onPluginReconnect, pluginVars, onAppVersionChangeHandler,
                   registryVars, updatedData, updateTimeout, errorPollId, debounceTimers,
                   pollers, pluginTimers, relayVars, histVars>>

\* setTimeout(() => { this.open(); reconnect handlers }, reopenDelay)
ReopenTimerFire ==
    /\ reopenTimers > 0
    /\ reopenTimers' = reopenTimers - 1
    /\ OpenBody
    /\ calls' = Dispatch("onReconnect", onReconnect, "", state)
    /\ lastOp' = Op("reopenTimer", "")
    /\ sent' = <<>> /\ threw' = FALSE
    /\ UNCHANGED <<client, pluginVars, onAppVersionChangeHandler, state, registryVars,
                   updatedData, updateTimeout, errorPollId, debounceTimers, pollers,
                   pluginTimers, relayConn, relayFailed, histVars>>

\* ----------------------------------------------------------------- close
hasConn_socketOnly == ws # NoSocket

hasConn == ws # NoSocket \/ client # NoClient

close ==
    /\ lastOp' = Op("close", "")
    /\ calls' = <<>> /\ sent' = <<>> /\ threw' = FALSE
    /\ IF ~hasConn
       THEN UNCHANGED <<progVars, envVars, histVars>>
       ELSE /\ ws' = NoSocket
            /\ onChange' = [Block |-> <<>>, Category |-> <<>>]
            /\ onReconnect' = <<>>
            /\ onStateChange' = <<>>
            /\ onError' = <<>>
            /\ sockets' = IF client = NoClient /\ sockets[ws] \in {"connecting", "open"}
                          THEN [sockets EXCEPT ![ws] = "closing"]
                          ELSE sockets
            /\ UNCHANGED <<client, onPluginReconnect, pluginVars, onAppVersionChangeHandler,
                           state, onConfigChange, updatedData, updateTimeout, errorPollId,
                           debounceTimers, pollers, reopenTimers, pluginTimers, relayVars,
                           histVars>>

\* ------------------------------------------ relay callbacks (plugin mode)
\* The relay is the host's websocket client.  It connects, loses its
\* connection (closeCallback after every failed attempt) and retries on its
\* own; it calls the callbacks it was given by open().  Its conn.readyState
\* is 1 ("open") or not ("down": no connection, or one that is connecting).

\* firstConnectCallback: the relay's first successful connect
RelayFirstConnect ==
    /\ client = Relay
    /\ relayConn = "down" /\ ~relayFailed
    /\ relayConn' = "open"
    /\ IF relayCallbacks
       THEN calls' = onConnectCalls /\ state' = "open"
       ELSE calls' = <<>> /\ UNCHANGED state
    /\ lastOp' = Op("relay.firstConnect", relayCallbacks)
    /\ sent' = <<>> /\ threw' = FALSE
    /\ UNCHANGED <<ws, client, onPluginReconnect, pluginVars, onAppVersionChangeHandler,
                   registryVars, updatedData, updateTimeout, errorPollId, sockets,
                   debounceTimers, pollers, reopenTimers, pluginTimers, relayFailed,
                   relayCallbacks, histVars>>

\* reconnectCallback: the relay connects again after a failure and says so
RelayReconnect ==
    /\ client = Relay
    /\ relayConn = "down" /\ relayFailed
    /\ relayConn' = "open"
    /\ relayFailed' = FALSE
    /\ IF relayCallbacks
       THEN /\ calls' = onReconnectCalls
            /\ state' = "open"
            /\ episodeReconnects' = episodeReconnects + 1
       ELSE /\ calls' = <<>>
            /\ UNCHANGED <<state, episodeReconnects>>
    /\ lastOp' = Op("relay.reconnect", relayCallbacks)
    /\ sent' = <<>> /\ threw' = FALSE
    /\ UNCHANGED <<ws, client, onPluginReconnect, pluginVars, onAppVersionChangeHandler,
                   registryVars, updatedData, updateTimeout, errorPollId, sockets,
                   debounceTimers, pollers, reopenTimers, pluginTimers, relayCallbacks,
                   enqLog, initWithSocket>>

\* the relay connects again without a reconnect event (reliable websockets):
\* only conn.readyState tells
RelayResume ==
    /\ client = Relay
    /\ relayConn = "down" /\ relayFailed
    /\ relayConn' = "open"
    /\ relayFailed' = FALSE
    /\ lastOp' = Op("relay.resume", "")
    /\ calls' = <<>> /\ sent' = <<>> /\ threw' = FALSE
    /\ UNCHANGED <<progVars, sockets, debounceTimers, pollers, reopenTimers, pluginTimers,
                   relayCallbacks, histVars>>

PollRunning_never == FALSE

\* this.errorPollId holds the id of an interval
PollRunning == errorPollId # NoTimer

PollStart_never == UNCHANGED <<errorPollId, pollers>>

\* if (!this.errorPollId) { this.errorPollId = setInterval(...) }
PollStart ==
    IF ~PollRunning
    THEN /\ \E p \in 1..MaxPolls : p \notin pollers
         /\ LET p == Min({q \in 1..MaxPolls : q \notin pollers})
            IN  errorPollId' = p /\ pollers' = pollers \cup {p}
    ELSE UNCHANGED <<errorPollId, pollers>>

\* closeCallback(connectFailCount)
RelayClose ==
    /\ client = Relay
    /\ relayConn' = "down"
    /\ relayFailed' = TRUE
    /\ IF relayCallbacks
       THEN /\ calls' = onCloseCalls
            /\ state' = "close"
            /\ PollStart
            /\ episodeReconnects' = 0
       ELSE /\ calls' = <<>>
            /\ UNCHANGED <<state, errorPollId, pollers, episodeReconnects>>
    /\ lastOp' = Op("relay.close", relayCallbacks)
    /\ sent' = <<>> /\ threw' = FALSE
    /\ UNCHANGED <<ws, client, onPluginReconnect, pluginVars, onAppVersionChangeHandler,
                   registryVars, updatedData, updateTimeout, sockets, debounceTimers,
                   reopenTimers, pluginTimers, relayCallbacks, enqLog, initWithSocket>>

\* errorCallback(event)
RelayError ==
    /\ client = Relay
    /\ relayCallbacks
    /\ calls' = onErrorCalls
    /\ lastOp' = Op("relay.error", "")
    /\ sent' = <<>> /\ threw' = FALSE
    /\ UNCHANGED <<progVars, envVars, histVars>>

\* this.client?.conn?.readyState === 1
ConnReady == client # NoClient /\ relayConn = "open"

\* one tick of the setInterval callback started by onClose
PollTick(p) ==
    /\ p \in pollers
    /\ IF ConnReady
       THEN /\ calls' = onReconnectCalls
            /\ state' = "open"
            /\ pollers' = pollers \ {errorPollId}
            /\ errorPollId' = NoTimer
            /\ episodeReconnects' = episodeReconnects + 1
       ELSE /\ calls' = <<>>
            /\ UNCHANGED <<state, pollers, errorPollId, episodeReconnects>>
    /\ lastOp' = Op("pollTick", p)
    /\ sent' = <<>> /\ threw' = FALSE
    /\ UNCHANGED <<ws, client, onPluginReconnect, pluginVars, onAppVersionChangeHandler,
                   registryVars, updatedData, updateTimeout, sockets, debounceTimers,
                   reopenTimers, pluginTimers, relayVars, enqLog, initWithSocket>>

\* ------------------------------------------------ plugin status broadcast
\* Utils.compareVersions(a, b): 0 when equal, positive when b is the newer
\* version, negative when a is; missing components count as 0
Part(v, i) == IF i <= Len(v) THEN v[i] ELSE 0

compareVersions(a, b) ==
    LET n == IF Len(a) > Len(b) THEN Len(a) ELSE Len(b)
        diff == {i \in 1..n : Part(a, i) # Part(b, i)}
    IN  IF a = b \/ diff = {} THEN 0
        ELSE IF Part(a, Min(diff)) > Part(b, Min(diff)) THEN -1 ELSE 1

Status(id, v) == [plugin_id |-> id, version |-> v]

\* data.plugin_statuses of the broadcasts fed to the handler
Broadcasts ==
    {<<>>}
    \cup {<<Status(id, v)>> : id \in BroadcastIds, v \in Versions}
    \cup {<<Status("other", <<1, 1>>), Status(ThisPlugin, <<1, 1>>)>>}
    \cup {<<Status(ThisPlugin, <<1, 1>>), Status(ThisPlugin, <<1>>)>>}

\* data.plugin_statuses.find((s) => s.plugin_id === this.pluginId)
Matches(data) == {i \in 1..Len(data) : data[i].plugin_id = pluginId}

\* the guard of the handler: it returns at once without id or without hook
StatusGuard == ~(pluginId = "" \/ ~onAppVersionChangeHandler)

IsNewer_orEqual(v) == compareVersions(pluginVersion, v) >= 0

\* compareVersions(this.pluginVersion, status.version) > 0
IsNewer(v) == compareVersions(pluginVersion, v) > 0

\* compareVersions(this.pluginVersion, status.version) >= 0
IsNewerOrEqual(v) == compareVersions(pluginVersion, v) >= 0

pluginStatusesChangedHandler(data) ==
    /\ lastOp' = Op("pluginStatusesChangedHandler", data)
    /\ sent' = <<>> /\ threw' = FALSE
    /\ IF StatusGuard /\ Matches(data) # {}
       THEN LET v == data[Min(Matches(data))].version
            IN  /\ calls' = IF IsNewer(v)
                            THEN <<[reg |-> "onAppVersionChangeHandler", h |-> "hook",
                                    arg |-> TRUE, st |-> state]>>
                            ELSE <<>>
                /\ IF IsNewerOrEqual(v)
                   THEN pluginTimers < MaxPluginTimers /\ pluginTimers' = pluginTimers + 1
                   ELSE UNCHANGED pluginTimers
       ELSE calls' = <<>> /\ UNCHANGED pluginTimers
    /\ UNCHANGED <<progVars, sockets, debounceTimers, pollers, reopenTimers, relayVars,
                   histVars>>

\* setTimeout(() => { if (this.onPluginReconnect) this.onPluginReconnect() }, 1000)
PluginTimerFire ==
    /\ pluginTimers > 0
    /\ pluginTimers' = pluginTimers - 1
    /\ IF onPluginReconnect
       THEN calls' = onReconnectCalls /\ state' = "open"
       ELSE calls' = <<>> /\ UNCHANGED state
    /\ lastOp' = Op("pluginTimer", onPluginReconnect)
    /\ sent' = <<>> /\ threw' = FALSE
    /\ UNCHANGED <<ws, client, onPluginReconnect, pluginVars, onAppVersionChangeHandler,
                   registryVars, updatedData, updateTimeout, errorPollId, sockets,
                   debounceTimers, pollers, reopenTimers, relayVars, histVars>>

setOnAppVersionChangeHandler ==
    /\ onAppVersionChangeHandler' = TRUE
    /\ lastOp' = Op("setOnAppVersionChangeHandler", "")
    /\ calls' = <<>> /\ sent' = <<>> /\ threw' = FALSE
    /\ UNCHANGED <<ws, client, onPluginReconnect, pluginVars, state, registryVars,
                   updatedData, updateTimeout, errorPollId, envVars, histVars>>

\* ------------------------------------------------------ outbound commands
Frame(via, to, prefix, action) == [via |-> via, to |-> to, prefix |-> prefix, action |-> action]

\* sendCommand: through the relay when there is one, else this.ws?.send(...)
sendCommandSent(action) ==
    IF client # NoClient THEN <<Frame("relay", 0, clientPrefix, action)>>
    ELSE IF ws # NoSocket /\ sockets[ws] = "open" THEN <<Frame("ws", ws, <<>>, action)>>
    ELSE <<>>

\* WebSocket.send throws InvalidStateError while the socket is connecting
sendCommandThrows == client = NoClient /\ ws # NoSocket /\ sockets[ws] = "connecting"

\* Utils.assertFailure logs and returns
assertFailureThrows == FALSE

\* a command method without further parameter check
Command(name, action) ==
    /\ lastOp' = Op(name, "")
    /\ calls' = <<>>
    /\ IF ~hasConn
       THEN sent' = <<>> /\ threw' = assertFailureThrows
       ELSE sent' = sendCommandSent(action) /\ threw' = sendCommandThrows
    /\ UNCHANGED <<progVars, envVars, histVars>>

TokenMissing_never(token) == FALSE

\* if (!token) { return }
TokenMissing(token) == token = ""

authenticate(token) ==
    /\ lastOp' = Op("authenticate", token)
    /\ calls' = <<>>
    /\ IF ~hasConn
       THEN sent' = <<>> /\ threw' = assertFailureThrows
       ELSE IF TokenMissing(token)
       THEN sent' = <<>> /\ threw' = FALSE
       ELSE sent' = sendCommandSent("AUTH") /\ threw' = sendCommandThrows
    /\ UNCHANGED <<progVars, envVars, histVars>>

subscribeToBlocks == Command("subscribeToBlocks", "SUBSCRIBE_BLOCKS")

unsubscribeToWorkspace == Command("unsubscribeToWorkspace", "UNSUBSCRIBE_WORKSPACE")

subscribeToWorkspace == Command("subscribeToWorkspace", "SUBSCRIBE_WORKSPACE")

unsubscribeFromBlocks == Command("unsubscribeFromBlocks", "UNSUBSCRIBE_BLOCKS")

\* ------------------------------------------------------------ registries
addOnChange(h, type) ==
    /\ Len(IF type = "block" THEN onChange.Block ELSE onChange.Category) < MaxHandlers
    /\ onChange' = IF type = "block"
                   THEN [onChange EXCEPT !.Block = Append(@, h)]
                   ELSE [onChange EXCEPT !.Category = Append(@, h)]
    /\ lastOp' = Op("addOnChange", "")
    /\ calls' = <<>> /\ sent' = <<>> /\ threw' = FALSE
    /\ UNCHANGED <<ws, client, onPluginReconnect, pluginVars, onAppVersionChangeHandler,
                   state, onStateChange, onReconnect, onError, onConfigChange, updatedData,
                   updateTimeout, errorPollId, envVars, histVars>>

removeOnChange(h, type) ==
    /\ onChange' = IF type = "block"
                   THEN [onChange EXCEPT !.Block = RemoveFirst(@, h)]
                   ELSE [onChange EXCEPT !.Category = RemoveFirst(@, h)]
    /\ lastOp' = Op("removeOnChange", "")
    /\ calls' = <<>> /\ sent' = <<>> /\ threw' = FALSE
    /\ UNCHANGED <<ws, client, onPluginReconnect, pluginVars, onAppVersionChangeHandler,
                   state, onStateChange, onReconnect, onError, onConfigChange, updatedData,
                   updateTimeout, errorPollId, envVars, histVars>>

addOnReconnect(h) ==
    /\ Len(onReconnect) < MaxHandlers
    /\ onReconnect' = Append(onReconnect, h)
    /\ lastOp' = Op("addOnReconnect", "")
    /\ calls' = <<>> /\ sent' = <<>> /\ threw' = FALSE
    /\ UNCHANGED <<ws, client, onPluginReconnect, pluginVars, onAppVersionChangeHandler,
                   state, onStateChange, onChange, onError, onConfigChange, updatedData,
                   updateTimeout, errorPollId, envVars, histVars>>

removeOnReconnect(h) ==
    /\ onReconnect' = RemoveFirst(onReconnect, h)
    /\ lastOp' = Op("removeOnReconnect", "")
    /\ calls' = <<>> /\ sent' = <<>> /\ threw' = FALSE
    /\ UNCHANGED <<ws, client, onPluginReconnect, pluginVars, onAppVersionChangeHandler,
                   state, onStateChange, onChange, onError, onConfigChange, updatedData,
                   updateTimeout, errorPollId, envVars, histVars>>

addOnStateChange(h) ==
    /\ Len(onStateChange) < MaxHandlers
    /\ onStateChange' = Append(onStateChange, h)
    /\ lastOp' = Op("addOnStateChange", "")
    /\ calls' = <<>> /\ sent' = <<>> /\ threw' = FALSE
    /\ UNCHANGED <<ws, client, onPluginReconnect, pluginVars, onAppVersionChangeHandler,
                   state, onReconnect, onChange, onError, onConfigChange, updatedData,
                   updateTimeout, errorPollId, envVars, histVars>>

removeOnStateChange(h) ==
    /\ onStateChange' = RemoveFirst(onStateChange, h)
    /\ lastOp' = Op("removeOnStateChange", "")
    /\ calls' = <<>> /\ sent' = <<>> /\ threw' = FALSE
    /\ UNCHANGED <<ws, client, onPluginReconnect, pluginVars, onAppVersionChangeHandler,
                   state, onReconnect, onChange, onError, onConfigChange, updatedData,
                   updateTimeout, errorPollId, envVars, histVars>>

addOnError(h) ==
    /\ Len(onError) < MaxHandlers
    /\ onError' = Append(onError, h)
    /\ lastOp' = Op("addOnError", "")
    /\ calls' = <<>> /\ sent' = <<>> /\ threw' = FALSE
    /\ UNCHANGED <<ws, client, onPluginReconnect, pluginVars, onAppVersionChangeHandler,
                   state, onStateChange, onReconnect, onChange, onConfigChange, updatedData,
                   updateTimeout, errorPollId, envVars, histVars>>

removeOnError(h) ==
    /\ onError' = RemoveFirst(onError, h)
    /\ lastOp' = Op("removeOnError", "")
    /\ calls' = <<>> /\ sent' = <<>> /\ threw' = FALSE
    /\ UNCHANGED <<ws, client, onPluginReconnect, pluginVars, onAppVersionChangeHandler,
                   state, onStateChange, onReconnect, onChange, onConfigChange, updatedData,
                   updateTimeout, errorPollId, envVars, histVars>>

addOnConfigChange(h) ==
    /\ Len(onConfigChange) < MaxHandlers
    /\ onConfigChange' = Append(onConfigChange, h)
    /\ lastOp' = Op("addOnConfigChange", "")
    /\ calls' = <<>> /\ sent' = <<>> /\ threw' = FALSE
    /\ UNCHANGED <<ws, client, onPluginReconnect, pluginVars, onAppVersionChangeHandler,
                   state, onStateChange, onReconnect, onChange, onError, updatedData,
                   updateTimeout, errorPollId, envVars, histVars>>

removeOnConfigChange(h) ==
    /\ onConfigChange' = RemoveFirst(onConfigChange, h)
    /\ lastOp' = Op("removeOnConfigChange", "")
    /\ calls' = <<>> /\ sent' = <<>> /\ threw' = FALSE
    /\ UNCHANGED <<ws, client, onPluginReconnect, pluginVars, onAppVersionChangeHandler,
                   state, onStateChange, onReconnect, onChange, onError, updatedData,
                   updateTimeout, errorPollId, envVars, histVars>>

\* config handlers that call client.removeOnConfigChange(themselves) when invoked
SelfRemovers == {"hr"}

\* for (const handler of array) { handler(this, arg) } over the live array:
\* the iterator holds an index and compares it with the length at each step,
\* and a handler may splice the array meanwhile.  The result is the
\* invocations made and the array left.
RECURSIVE LiveDispatch(_, _, _, _, _)
LiveDispatch(reg, array, i, arg, cs) ==
    IF i > Len(array) THEN [calls |-> cs, array |-> array]
    ELSE LiveDispatch(reg,
                      IF array[i] \in SelfRemovers THEN RemoveFirst(array, array[i]) ELSE array,
                      i + 1, arg,
                      Append(cs, [reg |-> reg, h |-> array[i], arg |-> arg, st |-> state]))

updateClientConfigHandler ==
    /\ calls' = LiveDispatch("onConfigChange", onConfigChange, 1, "config", <<>>).calls
    /\ onConfigChange' = LiveDispatch("onConfigChange", onConfigChange, 1, "config", <<>>).array
    /\ lastOp' = Op("updateClientConfigHandler", "")
    /\ sent' = <<>> /\ threw' = FALSE
    /\ UNCHANGED <<ws, client, onPluginReconnect, pluginVars, onAppVersionChangeHandler,
                   state, onStateChange, onReconnect, onChange, onError, updatedData,
                   updateTimeout, errorPollId, envVars, histVars>>

\* ------------------------------------------------------- update coalescer
\* an entity as it arrives: identity, content, and whether it is a typed
\* (hydrated) block object
Entity(id, title) == [id |-> id, title |-> title, hydrated |-> FALSE]

Entities == {Entity(id, t) : id \in EntityIds, t \in Titles}

\* OctoUtils.hydrateBlock: the typed block built from the data, same id and content
hydrateBlock(block) == [block EXCEPT !.hydrated = TRUE]

FilterOut_keep(seq, data) == seq

\* this.updatedData.X = this.updatedData.X.filter((o) => o.id !== data.id)
FilterOut(seq, data) == SelectSeq(seq, LAMBDA o : o.id # data.id)

QueueUpdate(ud, data, type) ==
    IF type = "block"
    THEN [ud EXCEPT !.Blocks = Append(FilterOut(ud.Blocks, data), hydrateBlock(data))]
    ELSE [ud EXCEPT !.Categories = Append(FilterOut(ud.Categories, data), data)]

ClearTimeout_skip(timers, handle) == timers

\* if (this.updateTimeout) { clearTimeout(this.updateTimeout) }
ClearTimeout(timers, handle) == IF handle # NoTimer THEN timers \ {handle} ELSE timers

\* the body of queueUpdateNotification: replace the entry of the identity,
\* cancel the pending timer, arm a new one
QueueBody(data, type) ==
    /\ Len(enqLog) < MaxBurst
    /\ updatedData' = QueueUpdate(updatedData, data, type)
    /\ LET remaining == ClearTimeout(debounceTimers, updateTimeout)
           free == (1..MaxTimers) \ remaining
       IN  /\ free # {}
           /\ updateTimeout' = Min(free)
           /\ debounceTimers' = remaining \cup {Min(free)}
    /\ enqLog' = Append(enqLog, [type |-> type, data |-> data])

queueUpdateNotification(data, type) ==
    /\ QueueBody(data, type)
    /\ lastOp' = Op("queueUpdateNotification", <<data.id, data.title, type>>)
    /\ calls' = <<>> /\ sent' = <<>> /\ threw' = FALSE
    /\ UNCHANGED <<ws, client, onPluginReconnect, pluginVars, onAppVersionChangeHandler,
                   state, registryVars, errorPollId, sockets, pollers, reopenTimers,
                   pluginTimers, relayVars, episodeReconnects, initWithSocket>>

\* this.updatedData = {Blocks: [], Categories: []}
EmptyUpdatedData == [Blocks |-> <<>>, Categories |-> <<>>]

FlushBatch_first(type) ==
    LET batch == IF type = "block" THEN updatedData.Blocks ELSE updatedData.Categories
    IN  IF batch = <<>> THEN <<>> ELSE <<Head(batch)>>

\* the batch a change handler of the category receives
FlushBatch(type) == IF type = "block" THEN updatedData.Blocks ELSE updatedData.Categories

flushCalls ==
    Dispatch("onChange.Block", onChange.Block, FlushBatch("block"), state)
    \o Dispatch("onChange.Category", onChange.Category, FlushBatch("category"), state)

\* the debounce timer fires: flushUpdateNotifications()
DebounceTimerFire(t) ==
    /\ t \in debounceTimers
    /\ debounceTimers' = debounceTimers \ {t}
    /\ calls' = flushCalls
    /\ updatedData' = EmptyUpdatedData
    /\ enqLog' = <<>>
    /\ lastOp' = Op("flushUpdateNotifications", t)
    /\ sent' = <<>> /\ threw' = FALSE
    /\ UNCHANGED <<ws, client, onPluginReconnect, pluginVars, onAppVersionChangeHandler,
                   state, registryVars, updateTimeout, errorPollId, sockets, pollers,
                   reopenTimers, pluginTimers, relayVars, episodeReconnects, initWithSocket>>

\* --------------------------------------------------------- inbound messages
\* a parsed WSMessage: action, block, category, error; an absent entity is the
\* empty set, a present one a singleton
Message(action, block, category, error) ==
    [action |-> action, block |-> block, category |-> category, error |-> error]

UpdateBlock(e) == Message("UPDATE_BLOCK", {e}, {}, "")

UpdateCategory(e) == Message("UPDATE_CATEGORY", {}, {e}, "")

\* Utils.fixWSData: the entity of the message and its notification category,
\* no data when the message carries no entity
fixWSData(message) ==
    IF message.block # {} THEN <<message.block, "block">>
    ELSE IF message.category # {} THEN <<message.category, "category">>
    ELSE <<{}, "block">>

\* const [data, type] = Utils.fixWSData(message); if (data) { queue }
UpdateBody(message) ==
    LET data == fixWSData(message)[1]
        type == fixWSData(message)[2]
    IN  IF data # {}
        THEN \E e \in data : QueueBody(e, type)
        ELSE UNCHANGED <<updatedData, updateTimeout, debounceTimers, enqLog>>

updateHandler(message) ==
    /\ UpdateBody(message)
    /\ lastOp' = Op("updateHandler", message)
    /\ calls' = <<>> /\ sent' = <<>> /\ threw' = FALSE
    /\ UNCHANGED <<ws, client, onPluginReconnect, pluginVars, onAppVersionChangeHandler,
                   state, registryVars, errorPollId, sockets, pollers, reopenTimers,
                   pluginTimers, relayVars, episodeReconnects, initWithSocket>>

\* e.data of a message event: text that JSON.parse turns into a message, or
\* text it throws on
Frame_json(message) == [json |-> TRUE, message |-> message]

Frame_garbage == [json |-> FALSE, message |-> Message("", {}, {}, "")]

\* ws.onmessage: ignored unless the socket is the active one, the text parses,
\* it carries no error and its action is UPDATE_BLOCK or UPDATE_CATEGORY
ws_onmessage(s, frame) ==
    /\ sockets[s] = "open"
    /\ IF /\ IsActiveSocket(s)
          /\ frame.json
          /\ frame.message.error = ""
          /\ frame.message.action \in {"UPDATE_BLOCK", "UPDATE_CATEGORY"}
       THEN UpdateBody(frame.message)
       ELSE UNCHANGED <<updatedData, updateTimeout, debounceTimers, enqLog>>
    /\ lastOp' = Op("ws.onmessage", s)
    /\ calls' = <<>> /\ sent' = <<>> /\ threw' = FALSE
    /\ UNCHANGED <<ws, client, onPluginReconnect, pluginVars, onAppVersionChangeHandler,
                   state, registryVars, errorPollId, sockets, pollers, reopenTimers,
                   pluginTimers, relayVars, episodeReconnects, initWithSocket>>

\* ------------------------------------------- flush with re-entrant handlers
\* change handlers that call client.updateHandler(ReentryMessage) when invoked
Requeuers == {"hq"}

ReentryMessage == UpdateBlock(Entity("b3", "v1"))

\* updateHandler run from inside a change handler, on the state the flush has
\* reached: acc is [ud, timers, handle, cs, enq]
Reenter(acc, message) ==
    LET data == fixWSData(message)[1]
        type == fixWSData(message)[2]
        e == CHOOSE x \in data : TRUE
        remaining == ClearTimeout(acc.timers, acc.handle)
        new == Min((1..MaxTimers) \ remaining)
    IN  IF data = {} THEN acc
        ELSE [acc EXCEPT !.ud = QueueUpdate(acc.ud, e, type),
                         !.timers = remaining \cup {new},
                         !.handle = new,
                         !.enq = Append(@, [type |-> type, data |-> e])]

\* for (const handler of this.onChange.X) { handler(this, this.updatedData.Xs) }
\* the argument is read from this.updatedData at each iteration
RECURSIVE FlushLoop(_, _, _, _)
FlushLoop(type, handlers, i, acc) ==
    IF i > Len(handlers) THEN acc
    ELSE LET call == [reg |-> IF type = "block" THEN "onChange.Block" ELSE "onChange.Category",
                      h |-> handlers[i],
                      arg |-> IF type = "block" THEN acc.ud.Blocks ELSE acc.ud.Categories,
                      st |-> state]
             called == [acc EXCEPT !.cs = Append(@, call)]
         IN  FlushLoop(type, handlers, i + 1,
                       IF handlers[i] \in Requeuers
                       THEN Reenter(called, ReentryMessage)
                       ELSE called)

\* flushUpdateNotifications() with handlers that may call back into the
\* client: both loops, then this.updatedData = {Blocks: [], Categories: []}
flushUpdateNotifications(t) ==
    /\ t \in debounceTimers
    /\ LET start == [ud |-> updatedData, timers |-> debounceTimers \ {t},
                     handle |-> updateTimeout, cs |-> <<>>, enq |-> <<>>]
           done == FlushLoop("category", onChange.Category, 1,
                             FlushLoop("block", onChange.Block, 1, start))
       IN  /\ calls' = done.cs
           /\ debounceTimers' = done.timers
           /\ updateTimeout' = done.handle
           /\ enqLog' = done.enq
    /\ updatedData' = EmptyUpdatedData
    /\ lastOp' = Op("flushUpdateNotifications", t)
    /\ sent' = <<>> /\ threw' = FALSE
    /\ UNCHANGED <<ws, client, onPluginReconnect, pluginVars, onAppVersionChangeHandler,
                   state, registryVars, errorPollId, sockets, pollers, reopenTimers,
                   pluginTimers, relayVars, episodeReconnects, initWithSocket>>

\* -------------------------------------------------------- specifications
ChangeTypes == {"block", "category"}

\* the versions this instance is initialised with
InstanceVersion == <<1, 0>>
InstanceVersions == {<<1, 0>>, <<1, 1>>}

\* broadcasts of the lifecycle specification: the same version, another plugin
LifecycleBroadcasts == {<<Status(ThisPlugin, <<1>>)>>, <<Status("other", <<1, 1>>)>>}

\* initPlugin is called before open(), as its callers do
BeforeOpen == \A s \in 1..MaxSockets : sockets[s] = "unused"

\* connection lifecycle of either transport
NextLifecycle ==
    \/ BeforeOpen /\ initPlugin(ThisPlugin, InstanceVersion)
    \/ open
    \/ close
    \/ \E s \in 1..MaxSockets : ws_onopen(s)
    \/ \E s \in 1..MaxSockets : ws_onclose(s)
    \/ ReopenTimerFire
    \/ RelayFirstConnect
    \/ RelayReconnect
    \/ RelayResume
    \/ RelayClose
    \/ \E p \in 1..MaxPolls : PollTick(p)
    \/ \E d \in LifecycleBroadcasts : pluginStatusesChangedHandler(d)
    \/ PluginTimerFire
    \/ setOnAppVersionChangeHandler
    \/ \E h \in Handlers : addOnStateChange(h)
    \/ \E h \in OneHandler : addOnReconnect(h)

Spec == Init /\ [][NextLifecycle]_vars

\* embedded mode: the relay, the poll loop, the status broadcasts
NextEmbedded ==
    \/ \E v \in InstanceVersions : initPlugin(ThisPlugin, v)
    \/ open
    \/ close
    \/ RelayFirstConnect
    \/ RelayReconnect
    \/ RelayResume
    \/ RelayClose
    \/ \E p \in 1..MaxPolls : PollTick(p)
    \/ \E d \in Broadcasts : pluginStatusesChangedHandler(d)
    \/ PluginTimerFire
    \/ setOnAppVersionChangeHandler
    \/ \E h \in Handlers : addOnReconnect(h)

SpecEmbedded == Init /\ [][NextEmbedded]_vars

\* the two transport handles, with initPlugin called at any time
NextTransport ==
    \/ initPlugin(ThisPlugin, InstanceVersion)
    \/ open
    \/ close
    \/ \E s \in 1..MaxSockets : ws_onopen(s)
    \/ \E s \in 1..MaxSockets : ws_onclose(s)
    \/ ReopenTimerFire
    \/ RelayFirstConnect
    \/ RelayClose
    \/ \E p \in 1..MaxPolls : PollTick(p)

SpecTransport == Init /\ [][NextTransport]_vars

\* outbound commands over either transport
NextCommands ==
    \/ initPlugin(ThisPlugin, InstanceVersion)
    \/ open
    \/ close
    \/ \E s \in 1..MaxSockets : ws_onopen(s)
    \/ \E s \in 1..MaxSockets : ws_onclose(s)
    \/ \E token \in Tokens : authenticate(token)
    \/ subscribeToBlocks
    \/ unsubscribeToWorkspace
    \/ subscribeToWorkspace
    \/ unsubscribeFromBlocks

SpecCommands == Init /\ [][NextCommands]_vars

\* dispatch of error and configuration events
NextDispatch ==
    \/ initPlugin(ThisPlugin, InstanceVersion)
    \/ open
    \/ \E s \in 1..MaxSockets : ws_onerror(s)
    \/ RelayError
    \/ updateClientConfigHandler
    \/ \E h \in Handlers : addOnError(h)
    \/ \E h \in Handlers : removeOnError(h)
    \/ \E h \in OneHandler \cup SelfRemovers : addOnConfigChange(h)
    \/ \E h \in OneHandler \cup SelfRemovers : removeOnConfigChange(h)

SpecDispatch == Init /\ [][NextDispatch]_vars

\* the handler registries and teardown
NextRegistry ==
    \/ BeforeOpen /\ initPlugin(ThisPlugin, InstanceVersion)
    \/ open
    \/ close
    \/ \E h \in OneHandler, type \in ChangeTypes : addOnChange(h, type)
    \/ \E h \in OneHandler, type \in ChangeTypes : removeOnChange(h, type)
    \/ \E h \in OneHandler : addOnReconnect(h)
    \/ \E h \in OneHandler : removeOnReconnect(h)
    \/ \E h \in OneHandler : addOnStateChange(h)
    \/ \E h \in OneHandler : removeOnStateChange(h)
    \/ \E h \in OneHandler : addOnError(h)
    \/ \E h \in OneHandler : removeOnError(h)
    \/ \E h \in OneHandler : addOnConfigChange(h)
    \/ \E h \in OneHandler : removeOnConfigChange(h)

SpecRegistry == Init /\ [][NextRegistry]_vars

\* the update coalescer and its change handlers
NextCoalescer ==
    \/ \E e \in Entities, type \in ChangeTypes : queueUpdateNotification(e, type)
    \/ \E t \in 1..MaxTimers : DebounceTimerFire(t)
    \/ \E h \in Handlers : addOnChange(h, "block")
    \/ \E h \in OneHandler : addOnChange(h, "category")
    \/ \E h \in Handlers, type \in ChangeTypes : removeOnChange(h, type)

SpecCoalescer == Init /\ [][NextCoalescer]_vars

\* the update messages fed to updateHandler
UpdateMessages ==
    {UpdateBlock(Entity("b1", t)) : t \in Titles}
    \cup {UpdateBlock(Entity("b2", "v1")), UpdateCategory(Entity("b1", "v1")),
          Message("UPDATE_BLOCK", {}, {}, "")}

\* the coalescer with change handlers that enqueue from inside a flush
NextReentrant ==
    \/ \E m \in UpdateMessages : updateHandler(m)
    \/ \E t \in 1..MaxTimers : flushUpdateNotifications(t)
    \/ \E h \in OneHandler \cup Requeuers : addOnChange(h, "block")
    \/ \E h \in OneHandler : addOnChange(h, "category")
    \/ \E h \in OneHandler \cup Requeuers, type \in ChangeTypes : removeOnChange(h, type)

SpecReentrant == Init /\ [][NextReentrant]_vars

\* recovery after a connection loss: the caller opens once, the transports
\* fail and come back, the timers run
NextRecovery ==
    \/ BeforeOpen /\ initPlugin(ThisPlugin, InstanceVersion)
    \/ BeforeOpen /\ open
    \/ close
    \/ \E s \in 1..MaxSockets : ws_onopen(s)
    \/ \E s \in 1..MaxSockets : ws_onclose(s)
    \/ ReopenTimerFire
    \/ RelayFirstConnect
    \/ RelayReconnect
    \/ RelayResume
    \/ RelayClose
    \/ \E p \in 1..MaxPolls : PollTick(p)
    \/ \E h \in OneHandler : addOnStateChange(h)
    \/ \E h \in OneHandler : addOnReconnect(h)

\* the event loop runs every timer that is due: the reopen timeout and each
\* tick of the poll interval
TimersRun ==
    /\ WF_vars(ReopenTimerFire)
    /\ \A p \in 1..MaxPolls : WF_vars(PollTick(p))

SpecRecovery == Init /\ [][NextRecovery]_vars /\ TimersRun

\* the frames a socket delivers
Frames ==
    {Frame_garbage,
     Frame_json(Message("", {}, {}, "err")),
     Frame_json(Message("OTHER", {}, {}, "")),
     Frame_json(UpdateBlock(Entity("b1", "v1"))),
     Frame_json(UpdateCategory(Entity("b1", "v1")))}

\* standalone mode: raw sockets, their open, close and message events, the
\* reopen timer, the flush
NextStandalone ==
    \/ open
    \/ close
    \/ \E s \in 1..MaxSockets : ws_onopen(s)
    \/ \E s \in 1..MaxSockets : ws_onclose(s)
    \/ \E s \in 1..MaxSockets, f \in Frames : ws_onmessage(s, f)
    \/ ReopenTimerFire
    \/ \E t \in 1..MaxTimers : DebounceTimerFire(t)
    \/ \E h \in OneHandler : addOnStateChange(h)

SpecStandalone == Init /\ [][NextStandalone]_vars

\* standalone mode: the open, error and close events of the sockets
NextEvents ==
    \/ open
    \/ close
    \/ \E s \in 1..MaxSockets : ws_onopen(s)
    \/ \E s \in 1..MaxSockets : ws_onerror(s)
    \/ \E s \in 1..MaxSockets : ws_onclose(s)
    \/ ReopenTimerFire
    \/ \E h \in OneHandler : addOnStateChange(h)
    \/ \E h \in OneHandler : addOnError(h)

SpecEvents == Init /\ [][NextEvents]_vars

\* ================================================================ claims
\* the (handler, argument) pairs of the state-change invocations of a step
StateArgs(cs) ==
    [i \in 1..Len(CallsOf(cs, "onStateChange")) |->
        <<CallsOf(cs, "onStateChange")[i].h, CallsOf(cs, "onStateChange")[i].arg>>]

\* every registered state-change handler once, in order, with argument arg
OncePerHandler(arg) == [i \in 1..Len(onStateChange) |-> <<onStateChange[i], arg>>]

\* C1 as stated: the state only moves init->open, open->close, close->open, and
\* the state-change handlers are invoked exactly once per change of state with
\* the new state, and never when the state does not change.
C1_AsStated ==
    [][/\ state' # state =>
            <<state, state'>> \in {<<"init", "open">>, <<"open", "close">>, <<"close", "open">>}
       /\ StateArgs(calls') = IF state' # state THEN OncePerHandler(state') ELSE <<>>]_vars

\* C1 amended: the state never returns to init and every change of it is to
\* open or to close (init->open, init->close, open->close, close->open); every
\* change comes with one invocation of each state-change handler with the new
\* state, and whenever the handlers are invoked (also without a change of
\* state) each is invoked once, in order, with the state the field then holds.
C1_Lifecycle ==
    [][/\ state' # state =>
            /\ <<state, state'>> \in {<<"init", "open">>, <<"init", "close">>,
                                      <<"open", "close">>, <<"close", "open">>}
            /\ StateArgs(calls') = OncePerHandler(state')
       /\ StateArgs(calls') # <<>> => StateArgs(calls') = OncePerHandler(state')]_vars

\* a first connect failed: both handlers were told "close" while the state was "init"
C1_Witness ==
    /\ state = "close"
    /\ Len(CallsOf(calls, "onStateChange")) = 2
    /\ calls[1].st = "init" /\ calls[1].arg = "close"

\* the enqueues of a category since the last flush
LogOf(type) == SelectSeq(enqLog, LAMBDA e : e.type = type)

\* position of the last enqueue of an identity
LastPos(log, id) ==
    CHOOSE i \in 1..Len(log) :
        /\ log[i].data.id = id
        /\ \A j \in (i + 1)..Len(log) : log[j].data.id # id

Coalesced(buf, log) ==
    /\ \A i, j \in 1..Len(buf) : i # j => buf[i].id # buf[j].id
    /\ {buf[i].id : i \in 1..Len(buf)} = {log[k].data.id : k \in 1..Len(log)}
    /\ \A i \in 1..Len(buf) : buf[i].title = log[LastPos(log, buf[i].id)].data.title
    /\ \A i, j \in 1..Len(buf) : i < j => LastPos(log, buf[i].id) < LastPos(log, buf[j].id)

\* C2: each pending sequence holds every identity at most once, the entry of
\* an identity carries the last value enqueued for it, and the entries are in
\* the order of the last enqueue of their identity.
C2_Coalesced ==
    /\ Coalesced(updatedData.Blocks, LogOf("block"))
    /\ Coalesced(updatedData.Categories, LogOf("category"))

\* b1 enqueued, then b2, then b1 again with another title: b1 moved behind b2
C2_Witness ==
    /\ Len(enqLog) = 3
    /\ \A k \in 1..3 : enqLog[k].type = "block"
    /\ enqLog[1].data.id = enqLog[3].data.id
    /\ enqLog[1].data.title # enqLog[3].data.title
    /\ enqLog[2].data.id # enqLog[1].data.id
    /\ Len(updatedData.Blocks) = 2
    /\ updatedData.Blocks[2].id = enqLog[3].data.id

\* the handlers of a registry were each called once, in order, with the batch
Delivered(cs, reg, handlers, batch) ==
    /\ Len(CallsOf(cs, reg)) = Len(handlers)
    /\ \A i \in 1..Len(handlers) :
        /\ CallsOf(cs, reg)[i].h = handlers[i]
        /\ CallsOf(cs, reg)[i].arg = batch

\* C3: a flush passes the whole accumulated sequence of a category, in one
\* call, to each handler registered for the category at that time, and both
\* pending sequences are empty right after it.
C3_Flush ==
    [][lastOp'.name = "flushUpdateNotifications" =>
        /\ Delivered(calls', "onChange.Block", onChange.Block, updatedData.Blocks)
        /\ Delivered(calls', "onChange.Category", onChange.Category, updatedData.Categories)
        /\ Len(calls') = Len(onChange.Block) + Len(onChange.Category)
        /\ {updatedData.Blocks[i].id : i \in 1..Len(updatedData.Blocks)}
             = {LogOf("block")[k].data.id : k \in 1..Len(LogOf("block"))}
        /\ {updatedData.Categories[i].id : i \in 1..Len(updatedData.Categories)}
             = {LogOf("category")[k].data.id : k \in 1..Len(LogOf("category"))}
        /\ updatedData'.Blocks = <<>>
        /\ updatedData'.Categories = <<>>]_vars

\* a flush has handed a batch of two blocks to two block handlers
C3_Witness ==
    /\ lastOp.name = "flushUpdateNotifications"
    /\ Len(CallsOf(calls, "onChange.Block")) = 2
    /\ Len(calls[1].arg) = 2
    /\ calls[1].h # calls[2].h
    /\ updatedData = [Blocks |-> <<>>, Categories |-> <<>>]

\* C4: at most one debounce timer is pending, it is the one armed by the last
\* enqueue, and one is pending exactly while enqueues wait for their flush; so
\* a burst of enqueues gets one flush, after its last enqueue, and the flush
\* covers the whole burst and leaves no timer behind.
C4_Debounce ==
    /\ [](/\ Cardinality(debounceTimers) <= 1
          /\ debounceTimers # {} => debounceTimers = {updateTimeout}
          /\ debounceTimers # {} <=> enqLog # <<>>)
    /\ [][/\ lastOp'.name = "queueUpdateNotification" => debounceTimers' = {updateTimeout'}
          /\ lastOp'.name = "flushUpdateNotifications" =>
                /\ enqLog # <<>>
                /\ enqLog' = <<>>
                /\ debounceTimers' = {}]_vars

\* a burst that left two entries has been flushed by one flush and no timer is left
C4_Witness ==
    /\ lastOp.name = "flushUpdateNotifications"
    /\ debounceTimers = {}
    /\ \E i \in 1..Len(calls) : Len(calls[i].arg) = 2
    /\ updateTimeout # NoTimer

EmptyRegistries ==
    /\ onStateChange = <<>> /\ onReconnect = <<>> /\ onError = <<>>
    /\ onChange = [Block |-> <<>>, Category |-> <<>>]

\* C5: close() with an active transport (raw socket or relay client) leaves
\* the state-change, reconnect, error and change registries empty and the
\* config-change registry as it was; close() without one changes nothing.
C5_Close ==
    [][lastOp'.name = "close" =>
        IF ws # NoSocket \/ client # NoClient
        THEN /\ EmptyRegistries'
             /\ onConfigChange' = onConfigChange
        ELSE UNCHANGED <<progVars, envVars>>]_vars

\* close() in plugin mode has emptied the registries and kept the config handlers
C5_Witness ==
    /\ lastOp.name = "close"
    /\ client = Relay
    /\ EmptyRegistries
    /\ Len(onConfigChange) = 2

\* C6 as stated: in plugin mode a relay close sets the state to "close" and
\* starts the poll; a poll tick that finds conn.readyState 1 sets the state
\* to "open", runs the reconnect handlers and stops the poll; and for one
\* close episode the reconnect handlers run once, also when the relay's own
\* reconnect callback fires for the same recovery.
C6_AsStated ==
    /\ (lastOp.name = "relay.close" /\ lastOp.arg) =>
            state = "close" /\ errorPollId # NoTimer /\ pollers = {errorPollId}
    /\ (lastOp.name = "pollTick" /\ relayConn = "open") =>
            /\ state = "open"
            /\ Len(CallsOf(calls, "onReconnect")) = Len(onReconnect)
            /\ errorPollId = NoTimer /\ pollers = {}
    /\ episodeReconnects <= 1

CommandNames ==
    {"authenticate", "subscribeToBlocks", "unsubscribeFromBlocks", "subscribeToWorkspace",
     "unsubscribeToWorkspace"}

\* C7: a command called while ws and client are both null sends nothing,
\* raises nothing and changes nothing; authenticate with an empty token sends
\* nothing either.
C7_Skipped ==
    [][lastOp'.name \in CommandNames =>
        /\ (ws = NoSocket /\ client = NoClient) =>
                sent' = <<>> /\ ~threw' /\ UNCHANGED <<progVars, envVars>>
        /\ (lastOp'.name = "authenticate" /\ lastOp'.arg = "") =>
                sent' = <<>> /\ ~threw' /\ UNCHANGED <<progVars, envVars>>]_vars

\* subscribeToBlocks was called after close() had dropped the only transport
C7_Witness ==
    /\ lastOp.name = "subscribeToBlocks"
    /\ ws = NoSocket /\ client = NoClient
    /\ \E s \in 1..MaxSockets : sockets[s] # "unused"
    /\ sent = <<>> /\ ~threw

\* a version as a number: major and minor, missing components 0
Weight(v) == Part(v, 1) * 100 + Part(v, 2)

\* the entries of a broadcast that name this instance
Named(data) == {i \in 1..Len(data) : pluginId # "" /\ data[i].plugin_id = pluginId}

\* the version the broadcast gives for this instance (its first such entry)
BroadcastVersion(data) == data[Min(Named(data))].version

HookCalls(cs) == CallsOf(cs, "onAppVersionChangeHandler")

\* C8: when a broadcast names this instance's plugin id, the hook (if one is
\* set) is invoked, once and with true, exactly when the broadcast version is
\* strictly greater than the recorded version; in no other case is it invoked.
C8_Hook ==
    lastOp.name = "pluginStatusesChangedHandler" =>
        IF Named(lastOp.arg) # {} /\ onAppVersionChangeHandler
           /\ Weight(BroadcastVersion(lastOp.arg)) > Weight(pluginVersion)
        THEN Len(HookCalls(calls)) = 1 /\ HookCalls(calls)[1].arg = TRUE
        ELSE HookCalls(calls) = <<>>

\* a broadcast with a newer version of this plugin has invoked the hook
C8_Witness ==
    /\ lastOp.name = "pluginStatusesChangedHandler"
    /\ Len(HookCalls(calls)) = 1
    /\ Weight(BroadcastVersion(lastOp.arg)) > Weight(pluginVersion)

\* C9 as stated: in plugin mode a broadcast that names this instance with a
\* version newer than or equal to the recorded one schedules one reconnect,
\* whether or not a hook is set; any other broadcast schedules none.
C9_AsStated ==
    [][lastOp'.name = "pluginStatusesChangedHandler" =>
        pluginTimers' = pluginTimers +
            (IF /\ client = Relay
                /\ Named(lastOp'.arg) # {}
                /\ Weight(BroadcastVersion(lastOp'.arg)) >= Weight(pluginVersion)
             THEN 1 ELSE 0)]_vars

\* C10 as stated: at most one of ws and client is non-null, whatever the
\* order of initPlugin, open, close and transport events.
C10_AsStated == ws = NoSocket \/ client = NoClient

\* C10 amended: as long as initPlugin has not been called while a raw socket
\* was held (it is called before open()), at most one of ws and client is
\* non-null.
C10_Exclusive == ~initWithSocket => (ws = NoSocket \/ client = NoClient)

\* initPlugin came after close(); the pending reopen timer then ran open() in
\* plugin mode and constructed no socket
C10_Witness ==
    /\ lastOp.name = "reopenTimer"
    /\ client = Relay /\ ~initWithSocket
    /\ ws = NoSocket
    /\ relayCallbacks

\* the active transport is there and connected: the relay's connection is
\* open, or the socket held in ws has fired its open event and not closed
TransportConnected ==
    IF client # NoClient
    THEN relayConn = "open"
    ELSE ws # NoSocket /\ sockets[ws] = "open"

\* C11 as stated: the state is "open" if and only if the active transport has
\* reported a connect and no close since: it is not "open" without an active
\* transport or with a disconnected one, and it is "open" while the active
\* socket is open and right after the relay has reported a connect.
C11_AsStated ==
    /\ state = "open" => TransportConnected
    /\ (client = NoClient /\ TransportConnected) => state = "open"
    /\ (lastOp.name \in {"relay.firstConnect", "relay.reconnect"} /\ lastOp.arg) =>
            state = "open"

\* the identities of a batch
IdsOf(batch) == {batch[i].id : i \in 1..Len(batch)}

\* C12 as stated: an update enqueued by a change handler while a flush is in
\* progress is not added to the batch being flushed (every handler of the
\* flush receives the sequence accumulated before the flush) and is not lost
\* (it is in the pending buffer after the flush, for the next flush).
C12_AsStated ==
    [][(/\ lastOp'.name = "flushUpdateNotifications"
        /\ \E i \in 1..Len(calls') : calls'[i].h \in Requeuers) =>
            /\ \A i \in 1..Len(calls') :
                    calls'[i].arg = IF calls'[i].reg = "onChange.Block"
                                    THEN updatedData.Blocks
                                    ELSE updatedData.Categories
            /\ \A k \in 1..Len(enqLog') :
                    enqLog'[k].data.id \in IdsOf(updatedData'.Blocks)]_vars

\* C13: with the timers running, a connection loss is recovered however often
\* it happens: in standalone mode a reopen timer armed by an unexpected close
\* of the active socket leads to the construction of a new socket, and in
\* plugin mode, after a relay close, a connection whose readyState is 1 and
\* stays 1 leads to the state "open".
C13_Recovery ==
    /\ (reopenTimers > 0) ~>
            (lastOp.name = "reopenTimer" /\ ws # NoSocket /\ sockets[ws] = "connecting")
    /\ (client = Relay /\ state = "close" /\ relayConn = "open") ~>
            (state = "open" \/ relayConn # "open")

\* a poll tick has found the connection ready after a relay close without
\* reconnect event and has set the state to "open"
C13_Witness ==
    /\ lastOp.name = "pollTick"
    /\ state = "open"
    /\ pollers = {}
    /\ episodeReconnects = 1
    /\ Len(calls) = 2

\* C14 as stated: whenever a state-change handler is invoked with argument s,
\* the state field already equals s.
C14_AsStated ==
    \A i \in 1..Len(calls) :
        calls[i].reg = "onStateChange" => calls[i].st = calls[i].arg

\* C14 amended: the state-change handlers are fired first and the state is
\* marked afterwards: while a handler runs with argument s the state field
\* still holds the state before the event, and it equals s once the event's
\* callback has returned.
C14_HandlersFirst ==
    [][\A i \in 1..Len(calls') :
            calls'[i].reg = "onStateChange" =>
                calls'[i].st = state /\ calls'[i].arg = state']_vars

\* the first open event of a socket: two handlers were told "open" while the
\* state field still read "init"
C14_Witness ==
    /\ lastOp.name = "ws.onopen"
    /\ state = "open"
    /\ Len(CallsOf(calls, "onStateChange")) = 2
    /\ \A i \in 1..2 : calls[i].st = "init" /\ calls[i].arg = "open"

\* C15: in standalone mode a close event or a message event of a socket that
\* is not the active one changes no field of the client, invokes no handler,
\* enqueues nothing and arms no timer; so the close event that follows close()
\* schedules no reopen.
C15_Stale ==
    [][(/\ lastOp'.name \in {"ws.onclose", "ws.onmessage"}
        /\ lastOp'.arg # ws) =>
            /\ UNCHANGED <<progVars, debounceTimers, reopenTimers, pollers, pluginTimers,
                           enqLog>>
            /\ calls' = <<>>]_vars

\* the close event of the socket that close() detached: nothing is scheduled
C15_Witness ==
    /\ lastOp.name = "ws.onclose"
    /\ ws = NoSocket
    /\ sockets[lastOp.arg] = "closed"
    /\ reopenTimers = 0
    /\ state = "open"

\* C16: in plugin mode at most one poll interval is alive at any time, and it
\* is the one whose id errorPollId holds: a close callback that arrives while
\* a poll is running starts no second one.
C16_OnePoll ==
    /\ Cardinality(pollers) <= 1
    /\ pollers \subseteq {errorPollId}

\* a relay close callback arrived while the state was "close" already and the
\* poll of the first close was running: still one poll
C16_Witness ==
    /\ lastOp.name = "relay.close" /\ lastOp.arg = TRUE
    /\ calls # <<>>
    /\ calls[1].st = "close"
    /\ Cardinality(pollers) = 1

\* close() has returned and the caller has not called open() since: in
\* standalone mode ws is null although a socket was constructed before
ClosedByCaller ==
    /\ client = NoClient
    /\ ws = NoSocket
    /\ \E s \in 1..MaxSockets : sockets[s] # "unused"

\* C17 as stated: in standalone mode, once close() has returned, every step
\* other than the caller's own open() constructs no socket and invokes no
\* reconnect handler, also when close() came during the reopen delay.
C17_AsStated ==
    [][(ClosedByCaller /\ lastOp'.name # "open") =>
            /\ ws' = NoSocket
            /\ \A s \in 1..MaxSockets : sockets'[s] = "connecting" => sockets[s] = "connecting"
            /\ CallsOf(calls', "onReconnect") = <<>>]_vars

\* C18 as stated: whenever a reconnect handler is invoked, in either mode,
\* the state is "open".
C18_AsStated ==
    \A i \in 1..Len(calls) : calls[i].reg = "onReconnect" => calls[i].st = "open"

\* C19 as stated: in standalone mode an open event or an error event of a
\* socket that is not the active one leaves the state as it is and invokes no
\* state-change handler and no error handler.
C19_AsStated ==
    [][(/\ lastOp'.name \in {"ws.onopen", "ws.onerror"}
        /\ lastOp'.arg # ws) =>
            /\ state' = state
            /\ CallsOf(calls', "onStateChange") = <<>>
            /\ CallsOf(calls', "onError") = <<>>]_vars

\* C20 as stated: one dispatch over a registry invokes every handler that was
\* registered when it started exactly once, in registration order, also when
\* a handler removes itself from the registry during the dispatch.
C20_AsStated ==
    [][lastOp'.name = "updateClientConfigHandler" =>
            [i \in 1..Len(calls') |-> calls'[i].h] = onConfigChange]_vars
====
